---- MODULE Spec2Model ----
(***************************************************************************)
(* Model of the firewall rule audit: the rule loader's normalisation       *)
(* (modules/rule_parser.py), the anomaly detection engine                  *)
(* (modules/anomaly_detector.py) and the audit run of firewall_audit.py.   *)
(*                                                                         *)
(* A port expression is a Python str and is modelled as the sequence of    *)
(* its characters, so that parse_ports really splits, strips and converts. *)
(* An address expression is an atomic string; ipaddress.ip_network is the  *)
(* library's parser, given by its result on each address of the model.     *)
(* The texts description / impact / recommendation of a finding are        *)
(* presentation only and are left out of the finding records.              *)
(***************************************************************************)
EXTENDS Integers, Sequences, FiniteSets, TLC

\* ---------------------------------------------------------------------
\* Python str and list primitives used by the engine
\* ---------------------------------------------------------------------
DigitChars == {"0", "1", "2", "3", "4", "5", "6", "7", "8", "9"}

DigitVal(c) ==
    CASE c = "0" -> 0 [] c = "1" -> 1 [] c = "2" -> 2 [] c = "3" -> 3
      [] c = "4" -> 4 [] c = "5" -> 5 [] c = "6" -> 6 [] c = "7" -> 7
      [] c = "8" -> 8 [] c = "9" -> 9

\* sep in s
HasChar(s, sep) == \E k \in 1..Len(s) : s[k] = sep

\* s.find(sep), 1-based; only used when sep in s
FirstIndex(s, sep) == CHOOSE k \in 1..Len(s) : s[k] = sep /\ \A m \in 1..(k - 1) : s[m] # sep

\* s.split(sep)
RECURSIVE split(_, _)
split(s, sep) ==
    IF HasChar(s, sep)
    THEN LET k == FirstIndex(s, sep)
         IN  <<SubSeq(s, 1, k - 1)>> \o split(SubSeq(s, k + 1, Len(s)), sep)
    ELSE <<s>>

\* s.split(sep, 1) when sep in s: the text before and after the first sep
split1(s, sep) ==
    LET k == FirstIndex(s, sep)
    IN  <<SubSeq(s, 1, k - 1), SubSeq(s, k + 1, Len(s))>>

\* s.strip()
RECURSIVE lstrip(_)
lstrip(s) == IF s # <<>> /\ Head(s) = " " THEN lstrip(Tail(s)) ELSE s

RECURSIVE rstrip(_)
rstrip(s) == IF s # <<>> /\ s[Len(s)] = " " THEN rstrip(SubSeq(s, 1, Len(s) - 1)) ELSE s

strip(s) == rstrip(lstrip(s))

\* value of a string of decimal digits
RECURSIVE DigitsValue(_)
DigitsValue(s) ==
    IF s = <<>> THEN 0
    ELSE 10 * DigitsValue(SubSeq(s, 1, Len(s) - 1)) + DigitVal(s[Len(s)])

AllDigits(s) == s # <<>> /\ \A k \in 1..Len(s) : s[k] \in DigitChars

\* int(s) accepts surrounding blanks and one sign before the digits
IntBody(s) ==
    LET t == strip(s)
    IN  IF t # <<>> /\ Head(t) \in {"+", "-"} THEN Tail(t) ELSE t

IntRaises(s) == ~AllDigits(IntBody(s))

int(s) ==
    LET t == strip(s)
    IN  IF t # <<>> /\ Head(t) = "-" THEN 0 - DigitsValue(IntBody(s))
        ELSE DigitsValue(IntBody(s))

\* ---------------------------------------------------------------------
\* Port expressions of the model (str values, one character per element)
\* ---------------------------------------------------------------------
PStar    == <<"*">>
PAny     == <<"a", "n", "y">>
P22      == <<"2", "2">>
P23      == <<"2", "3">>
P80      == <<"8", "0">>
P443     == <<"4", "4", "3">>
P20to25  == <<"2", "0", "-", "2", "5">>
P80c443  == <<"8", "0", ",", " ", "4", "4", "3">>
P8080    == <<"8", "0", "8", "0">>

\* ---------------------------------------------------------------------
\* Tables of the engine
\* ---------------------------------------------------------------------
UNSAFE_SERVICES ==
    << [port |-> <<"2", "1">>,           service |-> "FTP non chiffre"],
       [port |-> <<"2", "3">>,           service |-> "Telnet en clair"],
       [port |-> <<"8", "0">>,           service |-> "HTTP non chiffre"],
       [port |-> <<"1", "3", "9">>,      service |-> "NetBIOS"],
       [port |-> <<"4", "4", "5">>,      service |-> "SMB"],
       [port |-> <<"3", "3", "0", "6">>, service |-> "MySQL"],
       [port |-> <<"3", "3", "8", "9">>, service |-> "RDP"],
       [port |-> <<"5", "9", "0", "0">>, service |-> "VNC"] >>

sensitive_ports ==
    { <<"2", "2">>, <<"2", "3">>, <<"3", "3", "8", "9">>, <<"4", "4", "5">>,
      <<"1", "3", "9">>, <<"2", "1">>, <<"3", "3", "0", "6">>,
      <<"5", "4", "3", "2">>, <<"1", "4", "3", "3">> }

\* ---------------------------------------------------------------------
\* Containment helpers
\* ---------------------------------------------------------------------
\* one element of the comma separated list: (start, end)
parse_part(part) ==
    IF HasChar(part, "-")
    THEN <<int(split1(part, "-")[1]), int(split1(part, "-")[2])>>
    ELSE <<int(part), int(part)>>

parse_ports(port_str) ==
    IF port_str \in {<<"*">>, <<"a", "n", "y">>, <<>>}
    THEN << <<1, 65535>> >>
    ELSE LET parts == split(port_str, ",")
         IN  [k \in 1..Len(parts) |-> parse_part(strip(parts[k]))]

\* int() raises ValueError on one element of the list
parse_part_raises(part) ==
    IF HasChar(part, "-")
    THEN IntRaises(split1(part, "-")[1]) \/ IntRaises(split1(part, "-")[2])
    ELSE IntRaises(part)

\* parse_ports ends with the ValueError of int()
parse_ports_raises(port_str) ==
    IF port_str \in {<<"*">>, <<"a", "n", "y">>, <<>>}
    THEN FALSE
    ELSE LET parts == split(port_str, ",")
         IN  \E k \in 1..Len(parts) : parse_part_raises(strip(parts[k]))

\* is_port_subset parses both expressions before it compares
is_port_subset_raises(port_a, port_b) ==
    parse_ports_raises(port_a) \/ parse_ports_raises(port_b)

\* is_port_subset that tests that the two ranges overlap
is_port_subset_overlap(port_a, port_b) ==
    LET a_ranges == parse_ports(port_a)
        b_ranges == parse_ports(port_b)
    IN  \A x \in 1..Len(a_ranges) :
            \E y \in 1..Len(b_ranges) :
                /\ a_ranges[x][1] <= b_ranges[y][2]
                /\ a_ranges[x][2] >= b_ranges[y][1]

is_port_subset(port_a, port_b) ==
    LET a_ranges == parse_ports(port_a)
        b_ranges == parse_ports(port_b)
    IN  \A x \in 1..Len(a_ranges) :
            \E y \in 1..Len(b_ranges) :
                /\ a_ranges[x][1] >= b_ranges[y][1]
                /\ a_ranges[x][2] <= b_ranges[y][2]

\* ---------------------------------------------------------------------
\* ipaddress.ip_network(text, strict=False): the IP version, the address as
\* a number and the prefix length of each address text of the model; any
\* other text is not parseable (ValueError).  The number holds the leading
\* 32 bits of the address; the IPv6 networks of the model have prefixes of
\* at most 32 bits, so their other 96 bits are all host bits.
\* ---------------------------------------------------------------------
ip_literal(text) ==
    CASE text = "10.0.0.0/8"  -> [version |-> 4, address |-> 167772160, prefixlen |-> 8]
      [] text = "10.0.0.0/16" -> [version |-> 4, address |-> 167772160, prefixlen |-> 16]
      [] text = "10.0.0.7/16" -> [version |-> 4, address |-> 167772167, prefixlen |-> 16]
      [] text = "10.1.1.1"    -> [version |-> 4, address |-> 167837953, prefixlen |-> 32]
      [] text = "10.1.1.1/32" -> [version |-> 4, address |-> 167837953, prefixlen |-> 32]
      [] text = "10.2.0.0/16" -> [version |-> 4, address |-> 167903232, prefixlen |-> 16]
      [] text = "2001:db8::/32"  -> [version |-> 6, address |-> 536939960, prefixlen |-> 32]
      [] text = "2001:db8::1/16" -> [version |-> 6, address |-> 536939960, prefixlen |-> 16]

ParseableAddresses ==
    {"10.0.0.0/8", "10.0.0.0/16", "10.0.0.7/16", "10.1.1.1", "10.1.1.1/32", "10.2.0.0/16",
     "2001:db8::/32", "2001:db8::1/16"}

ip_network_raises(text) == text \notin ParseableAddresses

\* number of values of the leading 32 bits inside a network of that prefix
hostcount(net) == 2 ^ (32 - net.prefixlen)

\* strict=False: the host bits of the text are masked out
ip_network(text) ==
    LET lit == ip_literal(text)
    IN  [version   |-> lit.version,
         network_address   |-> (lit.address \div hostcount(lit)) * hostcount(lit),
         broadcast_address |-> (lit.address \div hostcount(lit)) * hostcount(lit)
                                   + hostcount(lit) - 1]

\* a.subnet_of(b) raises TypeError for networks of two versions
subnet_of_raises(a, b) == a.version # b.version

\* a.subnet_of(b) for networks of one version
subnet_of(a, b) ==
    /\ b.network_address <= a.network_address
    /\ b.broadcast_address >= a.broadcast_address

\* is_ip_subset ends with an exception: the TypeError of subnet_of, which the
\* except ValueError clause does not catch
is_ip_subset_raises(value, superset) ==
    IF superset \in {"*", "any"} THEN FALSE
    ELSE IF value \in {"*", "any"} THEN FALSE
    ELSE IF value = superset THEN FALSE
    ELSE IF ip_network_raises(value) \/ ip_network_raises(superset)
         THEN FALSE
         ELSE subnet_of_raises(ip_network(value), ip_network(superset))

\* the value is_ip_subset returns, when it returns
is_ip_subset(value, superset) ==
    IF superset \in {"*", "any"} THEN TRUE
    ELSE IF value \in {"*", "any"} THEN FALSE
    ELSE IF value = superset THEN TRUE
    ELSE IF ip_network_raises(value) \/ ip_network_raises(superset)
         THEN value = superset
         ELSE subnet_of(ip_network(value), ip_network(superset))

is_protocol_subset(proto, superset_proto) ==
    IF superset_proto = "any" THEN TRUE
    ELSE IF proto = "any" THEN FALSE
    ELSE proto = superset_proto

\* traffic_subset ends with an exception: "and" evaluates its operands in
\* order and stops at the first false one
traffic_subset_raises(rule_a, rule_b) ==
    IF is_ip_subset_raises(rule_a.source, rule_b.source) THEN TRUE
    ELSE IF ~is_ip_subset(rule_a.source, rule_b.source) THEN FALSE
    ELSE IF is_ip_subset_raises(rule_a.destination, rule_b.destination) THEN TRUE
    ELSE IF ~is_ip_subset(rule_a.destination, rule_b.destination) THEN FALSE
    ELSE is_port_subset_raises(rule_a.port, rule_b.port)

\* traffic_subset that leaves the ports out
traffic_subset_noport(rule_a, rule_b) ==
    /\ is_ip_subset(rule_a.source, rule_b.source)
    /\ is_ip_subset(rule_a.destination, rule_b.destination)
    /\ is_protocol_subset(rule_a.protocol, rule_b.protocol)

traffic_subset(rule_a, rule_b) ==
    /\ is_ip_subset(rule_a.source, rule_b.source)
    /\ is_ip_subset(rule_a.destination, rule_b.destination)
    /\ is_port_subset(rule_a.port, rule_b.port)
    /\ is_protocol_subset(rule_a.protocol, rule_b.protocol)

is_overly_generic(rule) ==
    \/ rule.source \in {"*", "any"}
    \/ rule.destination \in {"*", "any"}
    \/ rule.port \in {<<"*">>, <<"a", "n", "y">>}
    \/ rule.protocol = "any"

\* order.get(s, 0)
severity_order(s) ==
    CASE s = "high" -> 3 [] s = "medium" -> 2 [] s = "low" -> 1 [] OTHER -> 0

\* max(severities, key=...): the first element of the greatest key
highest_severity(severities) ==
    IF severities = <<>> THEN "low"
    ELSE LET k == CHOOSE k \in 1..Len(severities) :
                    /\ \A m \in 1..Len(severities) :
                           severity_order(severities[m]) <= severity_order(severities[k])
                    /\ \A m \in 1..(k - 1) :
                           severity_order(severities[m]) < severity_order(severities[k])
         IN  severities[k]

max_severity(a, b) == highest_severity(<<a, b>>)

\* concatenation of a list of lists, in order
RECURSIVE Flatten(_)
Flatten(lists) == IF lists = <<>> THEN <<>> ELSE Head(lists) \o Flatten(Tail(lists))

\* ---------------------------------------------------------------------
\* Shadowed
\* ---------------------------------------------------------------------
\* shadowed_scan with the priority test > in place of >=
RECURSIVE shadowed_scan_ties(_, _, _)
shadowed_scan_ties(rules, i, k) ==
    IF k >= i THEN <<>>
    ELSE IF rules[k].priority > rules[i].priority THEN shadowed_scan_ties(rules, i, k + 1)
    ELSE IF rules[i].action = rules[k].action THEN shadowed_scan_ties(rules, i, k + 1)
    ELSE IF traffic_subset(rules[i], rules[k])
         THEN << [rule |-> rules[i], by_rule |-> rules[k], severity |-> "high"] >>
         ELSE shadowed_scan_ties(rules, i, k + 1)

\* the inner loop over rules[:i], from candidate k on; stops at the first hit
RECURSIVE shadowed_scan(_, _, _)
shadowed_scan(rules, i, k) ==
    IF k >= i THEN <<>>
    ELSE IF rules[k].priority >= rules[i].priority THEN shadowed_scan(rules, i, k + 1)
    ELSE IF rules[i].action = rules[k].action THEN shadowed_scan(rules, i, k + 1)
    ELSE IF traffic_subset(rules[i], rules[k])
         THEN << [rule |-> rules[i], by_rule |-> rules[k], severity |-> "high"] >>
         ELSE shadowed_scan(rules, i, k + 1)

\* the scan of the rules before rule i ends with an exception
RECURSIVE shadowed_scan_raises(_, _, _)
shadowed_scan_raises(rules, i, k) ==
    IF k >= i THEN FALSE
    ELSE IF rules[k].priority >= rules[i].priority THEN shadowed_scan_raises(rules, i, k + 1)
    ELSE IF rules[i].action = rules[k].action THEN shadowed_scan_raises(rules, i, k + 1)
    ELSE IF traffic_subset_raises(rules[i], rules[k]) THEN TRUE
    ELSE IF traffic_subset(rules[i], rules[k]) THEN FALSE
    ELSE shadowed_scan_raises(rules, i, k + 1)

detect_shadowed_rules_raises(rules) ==
    \E i \in 1..Len(rules) : shadowed_scan_raises(rules, i, 1)

detect_shadowed_rules(rules) ==
    Flatten([i \in 1..Len(rules) |-> shadowed_scan(rules, i, 1)])

\* ---------------------------------------------------------------------
\* Redundant
\* ---------------------------------------------------------------------
\* redundant_pair without the continue that ends the duplicate branch
redundant_pair_fallthrough(rule, other_rule) ==
    IF rule.action # other_rule.action THEN <<>>
    ELSE (IF traffic_subset(rule, other_rule) /\ traffic_subset(other_rule, rule)
          THEN << [rule |-> other_rule, reference |-> rule,
                   kind |-> "duplicate", severity |-> "low"] >>
          ELSE <<>>)
         \o (IF traffic_subset(other_rule, rule) /\ ~is_overly_generic(rule)
             THEN << [rule |-> other_rule, reference |-> rule,
                      kind |-> "subset", severity |-> "low"] >>
             ELSE <<>>)

\* redundant_pair without the test of the overly generic covering rule
redundant_pair_generic(rule, other_rule) ==
    IF rule.action # other_rule.action THEN <<>>
    ELSE IF traffic_subset(rule, other_rule) /\ traffic_subset(other_rule, rule)
         THEN << [rule |-> other_rule, reference |-> rule,
                  kind |-> "duplicate", severity |-> "low"] >>
    ELSE IF traffic_subset(other_rule, rule)
         THEN << [rule |-> other_rule, reference |-> rule,
                  kind |-> "subset", severity |-> "low"] >>
    ELSE <<>>

\* the body of the inner loop for one pair: rule before other_rule
redundant_pair(rule, other_rule) ==
    IF rule.action # other_rule.action THEN <<>>
    ELSE IF traffic_subset(rule, other_rule) /\ traffic_subset(other_rule, rule)
         THEN << [rule |-> other_rule, reference |-> rule,
                  kind |-> "duplicate", severity |-> "low"] >>
    ELSE IF traffic_subset(other_rule, rule) /\ ~is_overly_generic(rule)
         THEN << [rule |-> other_rule, reference |-> rule,
                  kind |-> "subset", severity |-> "low"] >>
    ELSE <<>>

\* traffic_subset(rule, other_rule) is evaluated first and, whatever it
\* answers, traffic_subset(other_rule, rule) after it
redundant_pair_raises(rule, other_rule) ==
    IF rule.action # other_rule.action THEN FALSE
    ELSE IF traffic_subset_raises(rule, other_rule) THEN TRUE
    ELSE traffic_subset_raises(other_rule, rule)

detect_redundant_rules_raises(rules) ==
    \E i \in 1..Len(rules) :
        \E d \in 1..(Len(rules) - i) : redundant_pair_raises(rules[i], rules[i + d])

detect_redundant_rules(rules) ==
    Flatten([i \in 1..Len(rules) |->
                Flatten([d \in 1..(Len(rules) - i) |->
                            redundant_pair(rules[i], rules[i + d])])])

\* ---------------------------------------------------------------------
\* Permissive
\* ---------------------------------------------------------------------
\* permissive_issues where the sensitive port test also takes the port "*"
permissive_issues_star(rule) ==
    (IF rule.source = "*" /\ rule.destination = "*"
        THEN << <<"Autorise tout trafic (any vers any).">> >> ELSE <<>>)
    \o (IF rule.source = "*" /\ (rule.port \in sensitive_ports \/ rule.port = <<"*">>)
        THEN << <<"Port sensible ", rule.port, " ouvert a tous.">> >> ELSE <<>>)
    \o (IF rule.protocol = "any" /\ rule.source = "*"
        THEN << <<"Tous les protocoles autorises depuis n'importe ou.">> >> ELSE <<>>)
    \o (IF rule.port = <<"*">> /\ rule.source = "*"
        THEN << <<"Tous les ports ouverts depuis n'importe ou.">> >> ELSE <<>>)

permissive_issues(rule) ==
    (IF rule.source = "*" /\ rule.destination = "*"
        THEN << <<"Autorise tout trafic (any vers any).">> >> ELSE <<>>)
    \o (IF rule.source = "*" /\ rule.port \in sensitive_ports
        THEN << <<"Port sensible ", rule.port, " ouvert a tous.">> >> ELSE <<>>)
    \o (IF rule.protocol = "any" /\ rule.source = "*"
        THEN << <<"Tous les protocoles autorises depuis n'importe ou.">> >> ELSE <<>>)
    \o (IF rule.port = <<"*">> /\ rule.source = "*"
        THEN << <<"Tous les ports ouverts depuis n'importe ou.">> >> ELSE <<>>)

permissive_severity(rule) ==
    LET s0 == "low"
        s1 == IF rule.source = "*" /\ rule.destination = "*" THEN "high" ELSE s0
        s2 == IF rule.source = "*" /\ rule.port \in sensitive_ports
              THEN max_severity(s1, "medium") ELSE s1
        s3 == IF rule.protocol = "any" /\ rule.source = "*"
              THEN max_severity(s2, "medium") ELSE s2
        s4 == IF rule.port = <<"*">> /\ rule.source = "*"
              THEN max_severity(s3, "medium") ELSE s3
    IN  s4

permissive_item(rule) ==
    IF rule.action # "allow" THEN <<>>
    ELSE IF permissive_issues(rule) # <<>>
         THEN << [rule |-> rule, issues |-> permissive_issues(rule),
                  severity |-> permissive_severity(rule)] >>
         ELSE <<>>

detect_permissive_rules(rules) ==
    Flatten([i \in 1..Len(rules) |-> permissive_item(rules[i])])

\* ---------------------------------------------------------------------
\* Unsafe services
\* ---------------------------------------------------------------------
\* unsafe_scan without the break: one finding per matching table entry
RECURSIVE unsafe_scan_all(_, _)
unsafe_scan_all(rule, t) ==
    IF t > Len(UNSAFE_SERVICES) THEN <<>>
    ELSE (IF \/ is_port_subset(UNSAFE_SERVICES[t].port, rule.port)
             \/ is_port_subset(rule.port, UNSAFE_SERVICES[t].port)
          THEN << [rule |-> rule, service |-> UNSAFE_SERVICES[t].service,
                   severity |-> IF rule.source \in {"*", "any"} THEN "high" ELSE "medium"] >>
          ELSE <<>>)
         \o unsafe_scan_all(rule, t + 1)

\* the loop over the table, from entry t on; stops at the first hit
RECURSIVE unsafe_scan(_, _)
unsafe_scan(rule, t) ==
    IF t > Len(UNSAFE_SERVICES) THEN <<>>
    ELSE IF \/ is_port_subset(UNSAFE_SERVICES[t].port, rule.port)
            \/ is_port_subset(rule.port, UNSAFE_SERVICES[t].port)
         THEN << [rule |-> rule, service |-> UNSAFE_SERVICES[t].service,
                  severity |-> IF rule.source \in {"*", "any"} THEN "high" ELSE "medium"] >>
         ELSE unsafe_scan(rule, t + 1)

unsafe_item(rule) == IF rule.action # "allow" THEN <<>> ELSE unsafe_scan(rule, 1)

\* the scan of the services ends with an exception
RECURSIVE unsafe_scan_raises(_, _)
unsafe_scan_raises(rule, t) ==
    IF t > Len(UNSAFE_SERVICES) THEN FALSE
    ELSE IF is_port_subset_raises(UNSAFE_SERVICES[t].port, rule.port) THEN TRUE
    ELSE IF is_port_subset(UNSAFE_SERVICES[t].port, rule.port) THEN FALSE
    ELSE IF is_port_subset_raises(rule.port, UNSAFE_SERVICES[t].port) THEN TRUE
    ELSE IF is_port_subset(rule.port, UNSAFE_SERVICES[t].port) THEN FALSE
    ELSE unsafe_scan_raises(rule, t + 1)

detect_unsafe_services_raises(rules) ==
    \E i \in 1..Len(rules) :
        rules[i].action = "allow" /\ unsafe_scan_raises(rules[i], 1)

detect_unsafe_services(rules) ==
    Flatten([i \in 1..Len(rules) |-> unsafe_item(rules[i])])

\* ---------------------------------------------------------------------
\* Unused
\* ---------------------------------------------------------------------
\* unused_item that reports a rewritten copy of the rule
unused_item_copy(rule) ==
    IF rule.hit_count = 0
    THEN << [rule |-> [rule EXCEPT !.priority = 0], severity |-> "low"] >>
    ELSE <<>>

unused_item(rule) ==
    IF rule.hit_count = 0 THEN << [rule |-> rule, severity |-> "low"] >> ELSE <<>>

detect_unused_rules(rules) ==
    Flatten([i \in 1..Len(rules) |-> unused_item(rules[i])])

\* ---------------------------------------------------------------------
\* Generalized
\* ---------------------------------------------------------------------
\* covered_by without the test that the other rule does not contain the rule
covered_by_mutual(rules, i) ==
    Flatten([j \in 1..Len(rules) |->
                IF j = i THEN <<>>
                ELSE IF rules[i].action # rules[j].action THEN <<>>
                ELSE IF traffic_subset(rules[j], rules[i])
                     THEN <<rules[j]>>
                     ELSE <<>>])

\* the inner loop for the rule at position i: the rules it covers
covered_by(rules, i) ==
    Flatten([j \in 1..Len(rules) |->
                IF j = i THEN <<>>
                ELSE IF rules[i].action # rules[j].action THEN <<>>
                ELSE IF traffic_subset(rules[j], rules[i]) /\ ~traffic_subset(rules[i], rules[j])
                     THEN <<rules[j]>>
                     ELSE <<>>])

\* the comparison of rule i with the other rules ends with an exception
covered_by_raises(rules, i) ==
    \E j \in 1..Len(rules) :
        /\ j # i
        /\ rules[i].action = rules[j].action
        /\ IF traffic_subset_raises(rules[j], rules[i]) THEN TRUE
           ELSE IF traffic_subset(rules[j], rules[i])
                THEN traffic_subset_raises(rules[i], rules[j])
                ELSE FALSE

detect_generalized_rules_raises(rules) ==
    \E i \in 1..Len(rules) : covered_by_raises(rules, i)

\* generalized_item whose severity does not look at the covering rule
generalized_item_high(rules, i) ==
    IF covered_by(rules, i) # <<>>
    THEN << [rule |-> rules[i], covered_rules |-> covered_by(rules, i),
             count |-> Len(covered_by(rules, i)),
             severity |-> "high"] >>
    ELSE <<>>

generalized_item(rules, i) ==
    IF covered_by(rules, i) # <<>>
    THEN << [rule |-> rules[i], covered_rules |-> covered_by(rules, i),
             count |-> Len(covered_by(rules, i)),
             severity |-> IF ~is_overly_generic(rules[i]) THEN "medium" ELSE "high"] >>
    ELSE <<>>

detect_generalized_rules(rules) ==
    Flatten([i \in 1..Len(rules) |-> generalized_item(rules, i)])

\* ---------------------------------------------------------------------
\* Correlation and severity counts
\* ---------------------------------------------------------------------
\* the six detector categories, in the insertion order of the anomalies dict
CategoryKeys ==
    <<"shadowed", "redundant", "permissive", "unused", "unsafe_services", "generalized">>

\* every tag a rule can get, in the order sorted() gives to these strings
SortedTags ==
    <<"covered", "generalized", "permissive", "redundant", "shadowed",
      "unsafe_services", "unused">>

\* sorted(set(tags))
sorted_set(tags) ==
    SelectSeq(SortedTags, LAMBDA t : \E k \in 1..Len(tags) : tags[k] = t)

\* item_touches that tags the covered rules with the category of the finding
item_touches_key(key, item) ==
    << [id |-> item.rule.id, tag |-> key, severity |-> item.severity] >>
    \o (IF "by_rule" \in DOMAIN item
        THEN << [id |-> item.by_rule.id, tag |-> key, severity |-> item.severity] >>
        ELSE <<>>)
    \o (IF "reference" \in DOMAIN item
        THEN << [id |-> item.reference.id, tag |-> key, severity |-> item.severity] >>
        ELSE <<>>)
    \o (IF "covered_rules" \in DOMAIN item
        THEN [k \in 1..Len(item.covered_rules) |->
                 [id |-> item.covered_rules[k].id, tag |-> key,
                  severity |-> item.severity]]
        ELSE <<>>)

\* what one finding appends to corr_map: (rule id, tag, severity), in order
item_touches(key, item) ==
    << [id |-> item.rule.id, tag |-> key, severity |-> item.severity] >>
    \o (IF "by_rule" \in DOMAIN item
        THEN << [id |-> item.by_rule.id, tag |-> key, severity |-> item.severity] >>
        ELSE <<>>)
    \o (IF "reference" \in DOMAIN item
        THEN << [id |-> item.reference.id, tag |-> key, severity |-> item.severity] >>
        ELSE <<>>)
    \o (IF "covered_rules" \in DOMAIN item
        THEN [k \in 1..Len(item.covered_rules) |->
                 [id |-> item.covered_rules[k].id, tag |-> "covered",
                  severity |-> item.severity]]
        ELSE <<>>)

all_touches(anomalies) ==
    Flatten([c \in 1..Len(CategoryKeys) |->
                Flatten([k \in 1..Len(anomalies[CategoryKeys[c]]) |->
                            item_touches(CategoryKeys[c], anomalies[CategoryKeys[c]][k])])])

\* corr_keys of a map that is sorted by rule id
corr_keys_sorted(rules) ==
    LET ids == {rules[i].id : i \in 1..Len(rules)}
    IN  SelectSeq([n \in 1..Len(rules) |-> n], LAMBDA n : n \in ids)

\* keys of corr_map in insertion order: each id once, at its first position
corr_keys(rules) ==
    Flatten([i \in 1..Len(rules) |->
                IF \E m \in 1..(i - 1) : rules[m].id = rules[i].id
                THEN <<>> ELSE <<rules[i].id>>])

\* corr_map[id]["rule"]: the last rule of that id
corr_rule(rules, id) ==
    rules[CHOOSE i \in 1..Len(rules) :
              /\ rules[i].id = id
              /\ \A m \in (i + 1)..Len(rules) : rules[m].id # id]

corr_entry(rules, touches, id) ==
    LET mine       == SelectSeq(touches, LAMBDA e : e.id = id)
        tags       == [k \in 1..Len(mine) |-> mine[k].tag]
        severities == [k \in 1..Len(mine) |-> mine[k].severity]
    IN  [rule     |-> corr_rule(rules, id),
         tags     |-> sorted_set(tags),
         severity |-> IF severities # <<>> THEN highest_severity(severities) ELSE "none"]

build_correlation(rules, anomalies) ==
    LET keys == corr_keys(rules)
    IN  [k \in 1..Len(keys) |-> corr_entry(rules, all_touches(anomalies), keys[k])]

\* count_severities that counts once per rule a finding touches
count_severities_touches(anomalies) ==
    LET sevs == [k \in 1..Len(all_touches(anomalies)) |-> all_touches(anomalies)[k].severity]
    IN  [high   |-> Len(SelectSeq(sevs, LAMBDA s : s = "high")),
         medium |-> Len(SelectSeq(sevs, LAMBDA s : s = "medium")),
         low    |-> Len(SelectSeq(sevs, LAMBDA s : s = "low"))]

count_severities(anomalies) ==
    LET sevs == Flatten([c \in 1..Len(CategoryKeys) |->
                            [k \in 1..Len(anomalies[CategoryKeys[c]]) |->
                                anomalies[CategoryKeys[c]][k].severity]])
    IN  [high   |-> Len(SelectSeq(sevs, LAMBDA s : s = "high")),
         medium |-> Len(SelectSeq(sevs, LAMBDA s : s = "medium")),
         low    |-> Len(SelectSeq(sevs, LAMBDA s : s = "low"))]

\* ---------------------------------------------------------------------
\* Orchestration
\* ---------------------------------------------------------------------
detector_results(rules) ==
    [shadowed        |-> detect_shadowed_rules(rules),
     redundant       |-> detect_redundant_rules(rules),
     permissive      |-> detect_permissive_rules(rules),
     unused          |-> detect_unused_rules(rules),
     unsafe_services |-> detect_unsafe_services(rules),
     generalized     |-> detect_generalized_rules(rules)]

\* the detectors that end with an exception on these rules, each taken on
\* its own; detect_permissive_rules and detect_unused_rules compare field
\* values only and call no helper that can raise
detector_raises(rules) ==
    [shadowed        |-> detect_shadowed_rules_raises(rules),
     redundant       |-> detect_redundant_rules_raises(rules),
     permissive      |-> FALSE,
     unused          |-> FALSE,
     unsafe_services |-> detect_unsafe_services_raises(rules),
     generalized     |-> detect_generalized_rules_raises(rules)]

\* the six calls are in no try block: the first exception leaves the engine
detect_all_anomalies_raises(rules) ==
    \/ detect_shadowed_rules_raises(rules)
    \/ detect_redundant_rules_raises(rules)
    \/ detect_unsafe_services_raises(rules)
    \/ detect_generalized_rules_raises(rules)

detect_all_anomalies(rules) ==
    LET found == detector_results(rules)
    IN  [shadowed        |-> found.shadowed,
         redundant       |-> found.redundant,
         permissive      |-> found.permissive,
         unused          |-> found.unused,
         unsafe_services |-> found.unsafe_services,
         generalized     |-> found.generalized,
         correlated      |-> build_correlation(rules, found),
         severity_counts |-> count_severities(found)]

\* ---------------------------------------------------------------------
\* Rule loader: defaults and the sort by priority
\* ---------------------------------------------------------------------
\* rule.get(key, default)
Get(rule, key, default) == IF key \in DOMAIN rule THEN rule[key] ELSE default

\* one record of the input file at 0-based position i; the file gives no id
normalized_rule(rule, i) ==
    LET source      == Get(rule, "source", "*")
        destination == Get(rule, "destination", "*")
        port        == Get(rule, "port", <<"*">>)
    IN  [id          |-> i + 1,
         source      |-> IF source = "" THEN "*" ELSE source,
         destination |-> IF destination = "" THEN "*" ELSE destination,
         port        |-> IF strip(port) = <<>> THEN <<"*">> ELSE strip(port),
         protocol    |-> Get(rule, "protocol", "any"),
         action      |-> Get(rule, "action", "allow"),
         priority    |-> Get(rule, "priority", i + 1),
         hit_count   |-> Get(rule, "hit_count", 0)]

\* list.sort(key=priority): stable, ascending
RECURSIVE sort_by_priority(_)
sort_by_priority(list) ==
    IF list = <<>> THEN <<>>
    ELSE LET front == sort_by_priority(SubSeq(list, 1, Len(list) - 1))
             last  == list[Len(list)]
             keep  == Cardinality({k \in 1..Len(front) : front[k].priority <= last.priority})
         IN  SubSeq(front, 1, keep) \o <<last>> \o SubSeq(front, keep + 1, Len(front))

normalize_rules(raw) ==
    sort_by_priority([k \in 1..Len(raw) |-> normalized_rule(raw[k], k - 1)])

\* ---------------------------------------------------------------------
\* The audit run: main() loads the rules, then runs the engine
\* ---------------------------------------------------------------------
\* input: the records of the input file; rules: the loaded rule list;
\* anomalies: the report of the engine; pc: the position of main();
\* exit_code: <<>> while main() runs, then the one exit code of the process;
\* query, reply: the arguments and the result of one call of a containment
\* helper on its own
VARIABLES input, rules, anomalies, pc, exit_code, query, reply

vars == <<input, rules, anomalies, pc, exit_code, query, reply>>

NoAnomalies ==
    [shadowed |-> <<>>, redundant |-> <<>>, permissive |-> <<>>, unused |-> <<>>,
     unsafe_services |-> <<>>, generalized |-> <<>>, correlated |-> <<>>,
     severity_counts |-> [high |-> 0, medium |-> 0, low |-> 0]]

\* ---------------------------------------------------------------------
\* Input files of the model
\* ---------------------------------------------------------------------
\* longest policy, and longest list of rules drawn from all field values
MaxRules == 3
MaxFieldRules == 1

P22to22 == <<"2", "2", "-", "2", "2">>

\* four traffic shapes: everything; a wide one; a narrow one inside it; and
\* the narrow one written with other texts
Shapes ==
    { [source |-> "*", destination |-> "*", port |-> PStar, protocol |-> "any"],
      [source |-> "10.0.0.0/8", destination |-> "10.1.1.1", port |-> P20to25,
       protocol |-> "tcp"],
      [source |-> "10.0.0.0/16", destination |-> "10.1.1.1", port |-> P22,
       protocol |-> "tcp"],
      [source |-> "10.0.0.7/16", destination |-> "10.1.1.1/32", port |-> P22to22,
       protocol |-> "tcp"] }

Actions    == {"allow", "deny"}
Priorities == {1, 2}

\* policies with priority ties, all rules unused
PolicyRules ==
    { [source |-> s.source, destination |-> s.destination, port |-> s.port,
       protocol |-> s.protocol, action |-> a, priority |-> p] :
          s \in Shapes, a \in Actions, p \in Priorities }

\* policies of used and unused rules: a used rule is pinned to priority 1,
\* an unused one has no priority in the file and gets its position
CountedRules ==
    { [source |-> s.source, destination |-> s.destination, port |-> s.port,
       protocol |-> s.protocol, action |-> a, priority |-> 1, hit_count |-> 5] :
          s \in Shapes, a \in Actions }
    \cup
    { [source |-> s.source, destination |-> s.destination, port |-> s.port,
       protocol |-> s.protocol, action |-> a, hit_count |-> 0] :
          s \in Shapes, a \in Actions }

\* rules over all values of the four match fields
Sources      == {"*", "any", "10.0.0.0/8", "10.0.0.0/16"}
Destinations == {"*", "any", "10.1.1.1"}
Ports        == {PStar, PAny, P22, P23, P80, P443, P20to25, P80c443}
Protocols    == {"any", "tcp"}

FieldRules ==
    [source : Sources, destination : Destinations, port : Ports, protocol : Protocols,
     action : Actions]

RuleLists(Universe, n) == UNION {[1..m -> Universe] : m \in 0..n}

InitWith(files) ==
    /\ input \in files
    /\ rules = <<>>
    /\ anomalies = NoAnomalies
    /\ pc = "load"
    /\ exit_code = <<>>
    /\ query = <<>>
    /\ reply = <<>>

Init == InitWith(RuleLists(PolicyRules, MaxRules))

InitCounted == InitWith(RuleLists(CountedRules, MaxRules))

InitFields == InitWith(RuleLists(FieldRules, MaxFieldRules))

\* rules = parse_rules(args.input_file)
ParseRules ==
    /\ pc = "load"
    /\ rules' = normalize_rules(input)
    /\ pc' = "detect"
    /\ UNCHANGED <<input, anomalies, exit_code, query, reply>>

\* anomalies = detect_all_anomalies(rules, verbose=args.verbose); an
\* exception of the engine is caught by the except clause of main(), which
\* prints the error and ends the process with sys.exit(1)
DetectAllAnomalies ==
    /\ pc = "detect"
    /\ IF detect_all_anomalies_raises(rules)
       THEN /\ anomalies' = anomalies
            /\ pc' = "failed"
            /\ exit_code' = <<1>>
       ELSE /\ anomalies' = detect_all_anomalies(rules)
            /\ pc' = "done"
            /\ exit_code' = exit_code
    /\ UNCHANGED <<input, rules, query, reply>>

\* sum(len(v) for v in anomalies.values()): the eight values of the dict,
\* the correlated list and the severity_counts dict among them
total_anomalies(report) ==
    Len(report.shadowed) + Len(report.redundant) + Len(report.permissive)
        + Len(report.unused) + Len(report.unsafe_services) + Len(report.generalized)
        + Len(report.correlated) + Cardinality(DOMAIN report.severity_counts)

\* the report files are written (the run of the model is one where they
\* can be), then: return 0 if total_anomalies == 0 else 1
Return ==
    /\ pc = "done"
    /\ exit_code' = <<IF total_anomalies(anomalies) = 0 THEN 0 ELSE 1>>
    /\ pc' = "exited"
    /\ UNCHANGED <<input, rules, anomalies, query, reply>>

Next == ParseRules \/ DetectAllAnomalies \/ Return

Spec == Init /\ [][Next]_vars

SpecCounted == InitCounted /\ [][Next]_vars

SpecFields == InitFields /\ [][Next]_vars

\* policies with port expressions that are no numbers and with networks of
\* both IP versions
MaxMalformedRules == 2

Phttp   == <<"h", "t", "t", "p">>
P80open == <<"8", "0", "-">>

MalformedRules ==
    [source : {"*", "10.0.0.0/8", "2001:db8::/32"}, port : {P22, Phttp, P80open},
     action : Actions]

InitMalformed == InitWith(RuleLists(MalformedRules, MaxMalformedRules))

SpecMalformed == InitMalformed /\ [][Next]_vars

\* ---------------------------------------------------------------------
\* One call of a containment helper on its own
\* ---------------------------------------------------------------------
P1to65535   == <<"1", "-", "6", "5", "5", "3", "5">>
P20to22c23to25 ==
    <<"2", "0", "-", "2", "2", ",", "2", "3", "-", "2", "5">>
P22c80      == <<"2", "2", ",", "8", "0">>

\* valid port expressions: the sentinels, single ports, ranges and lists
PortTexts ==
    {PStar, PAny, P22, P23, P80, P20to25, P22to22, P80c443, P22c80,
     P20to22c23to25, P1to65535}

InitQuery(queries) ==
    /\ query \in queries
    /\ reply = <<>>
    /\ pc = "ask"
    /\ input = <<>>
    /\ rules = <<>>
    /\ anomalies = NoAnomalies
    /\ exit_code = <<>>

InitPorts == InitQuery([a : PortTexts, b : PortTexts, c : PortTexts])

\* is_port_subset on the pairs of three port expressions
ComparePorts ==
    /\ pc = "ask"
    /\ reply' = [aa |-> is_port_subset(query.a, query.a),
                 ab |-> is_port_subset(query.a, query.b),
                 bc |-> is_port_subset(query.b, query.c),
                 ac |-> is_port_subset(query.a, query.c)]
    /\ pc' = "answered"
    /\ UNCHANGED <<input, rules, anomalies, exit_code, query>>

NextPorts == ComparePorts

SpecPorts == InitPorts /\ [][NextPorts]_vars

\* address expressions: the sentinels, IPv4 and IPv6 hosts and networks, and
\* texts that are no address
AddressTexts ==
    {"*", "any", "10.0.0.0/8", "10.0.0.0/16", "10.0.0.7/16", "10.1.1.1", "10.1.1.1/32",
     "10.2.0.0/16", "2001:db8::/32", "2001:db8::1/16", "corp-lan", "dmz"}

InitAddresses == InitQuery([value : AddressTexts, superset : AddressTexts])

\* is_ip_subset(value, superset): what the call yields
CompareAddresses ==
    /\ pc = "ask"
    /\ reply' = IF is_ip_subset_raises(query.value, query.superset) THEN "TypeError"
                ELSE IF is_ip_subset(query.value, query.superset) THEN "True"
                ELSE "False"
    /\ pc' = "answered"
    /\ UNCHANGED <<input, rules, anomalies, exit_code, query>>

NextAddresses == CompareAddresses

SpecAddresses == InitAddresses /\ [][NextAddresses]_vars

\* match fields of two rules: sentinels, networks of both IP versions, one
\* network written in two ways, single ports, ranges and lists
TrafficSources == {"*", "any", "10.0.0.0/8", "10.0.0.0/16", "10.0.0.7/16", "2001:db8::/32"}
TrafficDestinations == {"*", "10.1.1.1", "10.1.1.1/32"}
TrafficPorts == {PStar, PAny, P22, P22to22, P20to25, P20to22c23to25}
TrafficProtocols == {"any", "tcp", "udp"}

TrafficRules ==
    [source : TrafficSources, destination : TrafficDestinations,
     port : TrafficPorts, protocol : TrafficProtocols]

InitTraffic == InitQuery([a : TrafficRules, b : TrafficRules])

\* what the call traffic_subset(rule_a, rule_b) yields
traffic_subset_outcome(rule_a, rule_b) ==
    IF traffic_subset_raises(rule_a, rule_b) THEN "raises"
    ELSE IF traffic_subset(rule_a, rule_b) THEN "True"
    ELSE "False"

\* traffic_subset in both directions
CompareTraffic ==
    /\ pc = "ask"
    /\ reply' = [ab |-> traffic_subset_outcome(query.a, query.b),
                 ba |-> traffic_subset_outcome(query.b, query.a)]
    /\ pc' = "answered"
    /\ UNCHANGED <<input, rules, anomalies, exit_code, query>>

NextTraffic == CompareTraffic

SpecTraffic == InitTraffic /\ [][NextTraffic]_vars

\* =====================================================================
\* Properties
\* =====================================================================
Done == pc = "done"

Positions == 1..Len(rules)

\* the rule list handed to the engine is sorted ascending by priority
SortedByPriority ==
    \A i, j \in Positions : i < j => rules[i].priority <= rules[j].priority

\* indexes of the findings of a category
Findings(category) == 1..Len(anomalies[category])

\* ---------------------------------------------------------------------
\* Shadowing
\* ---------------------------------------------------------------------
\* earlier positions that pre-empt the rule at position j
Shadowers(j) ==
    {i \in 1..(j - 1) : /\ rules[i].priority < rules[j].priority
                        /\ rules[i].action # rules[j].action
                        /\ traffic_subset(rules[j], rules[i])}

ShadowedFindingsOf(j) == {k \in Findings("shadowed") : anomalies.shadowed[k].rule = rules[j]}

\* C1: on a list sorted by priority, a rule has exactly one shadowing finding
\* if an earlier rule of strictly lower priority value, of the other action,
\* contains its traffic, and none otherwise; by_rule is the first such rule
\* in list order and the severity is high; hence no shadowing finding links
\* two rules of the same action or of equal priority.
C1_ShadowedExactlyFirst ==
    Done =>
        /\ SortedByPriority
        /\ \A k \in Findings("shadowed") :
               \E j \in Positions : anomalies.shadowed[k].rule = rules[j]
        /\ \A j \in Positions :
               IF Shadowers(j) = {}
               THEN ShadowedFindingsOf(j) = {}
               ELSE /\ Cardinality(ShadowedFindingsOf(j)) = 1
                    /\ \A k \in ShadowedFindingsOf(j) :
                           /\ \E i \in Shadowers(j) :
                                  /\ \A m \in Shadowers(j) : i <= m
                                  /\ anomalies.shadowed[k].by_rule = rules[i]
                           /\ anomalies.shadowed[k].severity = "high"
        /\ \A k \in Findings("shadowed") :
               /\ anomalies.shadowed[k].rule.action # anomalies.shadowed[k].by_rule.action
               /\ anomalies.shadowed[k].rule.priority # anomalies.shadowed[k].by_rule.priority

\* a rule with two shadowing candidates of different traffic, so that the
\* choice of the first one shows
C1_Witness ==
    /\ Done
    /\ \E j \in Positions :
           \E i, m \in Shadowers(j) :
               i < m /\ ~traffic_subset(rules[i], rules[m])

\* ---------------------------------------------------------------------
\* Redundancy
\* ---------------------------------------------------------------------
Mutual(i, j) == traffic_subset(rules[i], rules[j]) /\ traffic_subset(rules[j], rules[i])

\* the pair (reference at i, subject at j) is reported as a duplicate
DuplicatePair(i, j) == i < j /\ rules[i].action = rules[j].action /\ Mutual(i, j)

\* the pair (reference at i, subject at j) is reported as a subset
SubsetPair(i, j) ==
    /\ i < j
    /\ rules[i].action = rules[j].action
    /\ ~Mutual(i, j)
    /\ traffic_subset(rules[j], rules[i])
    /\ ~is_overly_generic(rules[i])

RedundantFindings(i, j, kind) ==
    {k \in Findings("redundant") : /\ anomalies.redundant[k].rule = rules[j]
                                   /\ anomalies.redundant[k].reference = rules[i]
                                   /\ anomalies.redundant[k].kind = kind}

\* C2: every pair i < j of equal action and mutual containment has exactly one
\* finding, a duplicate of severity low on rules[j] referring to rules[i], and
\* no subset finding; a rule with k qualifying earlier counterparts has k
\* redundancy findings.
C2_DuplicatePerPair ==
    Done =>
        /\ \A i, j \in Positions :
               DuplicatePair(i, j) =>
                   /\ Cardinality(RedundantFindings(i, j, "duplicate")) = 1
                   /\ RedundantFindings(i, j, "subset") = {}
                   /\ \A k \in RedundantFindings(i, j, "duplicate") :
                          anomalies.redundant[k].severity = "low"
        /\ \A j \in Positions :
               Cardinality({k \in Findings("redundant") : anomalies.redundant[k].rule = rules[j]})
                   = Cardinality({i \in Positions : DuplicatePair(i, j) \/ SubsetPair(i, j)})

\* a rule with two earlier duplicates, one of them written with other texts
C2_Witness ==
    /\ Done
    /\ \E i, m, j \in Positions :
           /\ i < m
           /\ DuplicatePair(i, j)
           /\ DuplicatePair(m, j)
           /\ rules[i].source # rules[j].source
           /\ ~is_overly_generic(rules[i])

\* C3: a subset finding (subject O, reference R, severity low) exists for a
\* pair exactly when O is after R, the actions are equal, the pair is not a
\* duplicate, R contains O and R is not overly generic; no subset finding
\* refers to a rule with a universal source, destination or port or with
\* protocol any.
C3_SubsetNotGeneric ==
    Done =>
        /\ \A i, j \in Positions :
               /\ Cardinality(RedundantFindings(i, j, "subset"))
                      = IF SubsetPair(i, j) THEN 1 ELSE 0
               /\ \A k \in RedundantFindings(i, j, "subset") :
                      anomalies.redundant[k].severity = "low"
        /\ \A k \in Findings("redundant") :
               /\ \E i, j \in Positions :
                      /\ anomalies.redundant[k].rule = rules[j]
                      /\ anomalies.redundant[k].reference = rules[i]
               /\ anomalies.redundant[k].kind = "subset" =>
                      /\ anomalies.redundant[k].reference.source \notin {"*", "any"}
                      /\ anomalies.redundant[k].reference.destination \notin {"*", "any"}
                      /\ anomalies.redundant[k].reference.port \notin {PStar, PAny}
                      /\ anomalies.redundant[k].reference.protocol # "any"

\* a reported subset pair, next to a contained pair whose covering rule is
\* overly generic
C3_Witness ==
    /\ Done
    /\ \E i, j \in Positions : SubsetPair(i, j)
    /\ \E i, j \in Positions :
           /\ i < j
           /\ rules[i].action = rules[j].action
           /\ ~Mutual(i, j)
           /\ traffic_subset(rules[j], rules[i])
           /\ is_overly_generic(rules[i])

\* ---------------------------------------------------------------------
\* Permissive rules
\* ---------------------------------------------------------------------
\* the universal sentinel of the data model, as the containment helpers read it
Universal(address) == address \in {"*", "any"}

UniversalPort(port) == port \in {PStar, PAny}

AnyToAny(rule)       == Universal(rule.source) /\ Universal(rule.destination)
SensitiveOpen(rule)  == Universal(rule.source) /\ rule.port \in sensitive_ports
AllProtocols(rule)   == rule.protocol = "any" /\ Universal(rule.source)
AllPorts(rule)       == UniversalPort(rule.port) /\ Universal(rule.source)

PermissiveFindingsOf(j) ==
    {k \in Findings("permissive") : anomalies.permissive[k].rule = rules[j]}

\* C4: a rule has exactly one permissive finding if its action is allow and one
\* of the four checks fires, where universal is "*" or "any", and none
\* otherwise; the severity is high when check 1 fired and medium otherwise.
C4_PermissiveUniversal ==
    Done =>
        \A j \in Positions :
            IF /\ rules[j].action = "allow"
               /\ \/ AnyToAny(rules[j]) \/ SensitiveOpen(rules[j])
                  \/ AllProtocols(rules[j]) \/ AllPorts(rules[j])
            THEN /\ Cardinality(PermissiveFindingsOf(j)) = 1
                 /\ \A k \in PermissiveFindingsOf(j) :
                        anomalies.permissive[k].severity
                            = IF AnyToAny(rules[j]) THEN "high" ELSE "medium"
            ELSE PermissiveFindingsOf(j) = {}

\* the rule of the scenario: everything universal, written with "*"
OpenRule(rule) ==
    /\ rule.source = "*"
    /\ rule.destination = "*"
    /\ rule.port = PStar
    /\ rule.protocol = "any"
    /\ rule.action = "allow"

IssueAnyToAny     == <<"Autorise tout trafic (any vers any).">>
IssueAllProtocols == <<"Tous les protocoles autorises depuis n'importe ou.">>
IssueAllPorts     == <<"Tous les ports ouverts depuis n'importe ou.">>
IssueSensitive(port) == <<"Port sensible ", port, " ouvert a tous.">>

HasIssue(finding, issue) == \E m \in 1..Len(finding.issues) : finding.issues[m] = issue

\* C5 as stated: the allow rule with source, destination and port "*" and
\* protocol any has one finding that lists all four issues, severity high.
C5_FourIssues ==
    Done =>
        \A j \in Positions :
            OpenRule(rules[j]) =>
                /\ Cardinality(PermissiveFindingsOf(j)) = 1
                /\ \A k \in PermissiveFindingsOf(j) :
                       /\ HasIssue(anomalies.permissive[k], IssueAnyToAny)
                       /\ HasIssue(anomalies.permissive[k], IssueSensitive(rules[j].port))
                       /\ HasIssue(anomalies.permissive[k], IssueAllProtocols)
                       /\ HasIssue(anomalies.permissive[k], IssueAllPorts)
                       /\ anomalies.permissive[k].severity = "high"

\* C5 amended: that rule has one finding, of severity high, whose issue list
\* is the three issues any-to-any, all protocols and all ports, in that order;
\* the sensitive-port issue is absent, since "*" is not a sensitive port.
C5_ThreeIssues ==
    Done =>
        \A j \in Positions :
            OpenRule(rules[j]) =>
                /\ Cardinality(PermissiveFindingsOf(j)) = 1
                /\ \A k \in PermissiveFindingsOf(j) :
                       /\ anomalies.permissive[k].issues
                              = <<IssueAnyToAny, IssueAllProtocols, IssueAllPorts>>
                       /\ anomalies.permissive[k].severity = "high"

C5_Witness ==
    /\ Done
    /\ \E j \in Positions : OpenRule(rules[j]) /\ PermissiveFindingsOf(j) # {}

\* ---------------------------------------------------------------------
\* Unsafe services
\* ---------------------------------------------------------------------
UnsafeFindingsOf(j) ==
    {k \in Findings("unsafe_services") : anomalies.unsafe_services[k].rule = rules[j]}

\* table entries that match the port expression of a rule
UnsafeHits(rule) ==
    {t \in 1..Len(UNSAFE_SERVICES) :
        \/ is_port_subset(UNSAFE_SERVICES[t].port, rule.port)
        \/ is_port_subset(rule.port, UNSAFE_SERVICES[t].port)}

\* C6: a rule has at most one unsafe-service finding and a deny rule none; an
\* allow rule has one exactly when a table port matches its port expression
\* in one of the two directions; the service is that of the first matching
\* entry of the table and the severity is high for a universal source and
\* medium otherwise.
C6_UnsafeFirstHit ==
    Done =>
        /\ \A k \in Findings("unsafe_services") :
               \E j \in Positions : anomalies.unsafe_services[k].rule = rules[j]
        /\ \A j \in Positions :
               /\ Cardinality(UnsafeFindingsOf(j)) <= 1
               /\ rules[j].action = "deny" => UnsafeFindingsOf(j) = {}
               /\ rules[j].action = "allow" =>
                      (UnsafeFindingsOf(j) # {} <=> UnsafeHits(rules[j]) # {})
               /\ \A k \in UnsafeFindingsOf(j) :
                      /\ \E t \in UnsafeHits(rules[j]) :
                             /\ \A u \in UnsafeHits(rules[j]) : t <= u
                             /\ anomalies.unsafe_services[k].service
                                    = UNSAFE_SERVICES[t].service
                      /\ anomalies.unsafe_services[k].severity
                             = IF Universal(rules[j].source) THEN "high" ELSE "medium"

\* an allow rule from source "any" whose port range spans FTP and Telnet
C6_Witness ==
    /\ Done
    /\ \E j \in Positions :
           /\ rules[j].action = "allow"
           /\ rules[j].source = "any"
           /\ Cardinality(UnsafeHits(rules[j])) = 2
           /\ UnsafeFindingsOf(j) # {}

\* ---------------------------------------------------------------------
\* Generalization
\* ---------------------------------------------------------------------
\* positions of the rules strictly covered by the rule at position i
CoveredPositions(i) ==
    {c \in Positions : /\ c # i
                       /\ rules[c].action = rules[i].action
                       /\ traffic_subset(rules[c], rules[i])
                       /\ ~traffic_subset(rules[i], rules[c])}

GeneralizedFindingsOf(i) ==
    {k \in Findings("generalized") : anomalies.generalized[k].rule = rules[i]}

\* the list holds the rules of these positions, each once, in list order
ListsPositions(list, positions) ==
    /\ Len(list) = Cardinality(positions)
    /\ \A c \in positions : \E m \in 1..Len(list) : list[m] = rules[c]
    /\ \A m, n \in 1..Len(list) :
           m < n => \E c, e \in positions : c < e /\ list[m] = rules[c] /\ list[n] = rules[e]

\* C7: a rule U has at most one generalization finding, and one exactly when
\* some other rule of the same action is contained in U without containing
\* U; covered_rules is exactly the list of those rules in list order, never U
\* or a duplicate of U, count is its length, and the severity is high if U is
\* overly generic and medium otherwise.
C7_GeneralizedCovers ==
    Done =>
        /\ \A k \in Findings("generalized") :
               \E i \in Positions : anomalies.generalized[k].rule = rules[i]
        /\ \A i \in Positions :
               /\ Cardinality(GeneralizedFindingsOf(i))
                      = IF CoveredPositions(i) # {} THEN 1 ELSE 0
               /\ \A k \in GeneralizedFindingsOf(i) :
                      /\ ListsPositions(anomalies.generalized[k].covered_rules,
                                        CoveredPositions(i))
                      /\ anomalies.generalized[k].count = Cardinality(CoveredPositions(i))
                      /\ \A m \in 1..Len(anomalies.generalized[k].covered_rules) :
                             /\ anomalies.generalized[k].covered_rules[m] # rules[i]
                             /\ ~traffic_subset(rules[i],
                                                anomalies.generalized[k].covered_rules[m])
                      /\ anomalies.generalized[k].severity
                             = IF is_overly_generic(rules[i]) THEN "high" ELSE "medium"

\* a rule that is not overly generic, covers a later rule and has a duplicate
C7_Witness ==
    /\ Done
    /\ \E i, c, e \in Positions :
           /\ ~is_overly_generic(rules[i])
           /\ c \in CoveredPositions(i)
           /\ i < c
           /\ e # i
           /\ rules[e].action = rules[i].action
           /\ Mutual(i, e)
           /\ GeneralizedFindingsOf(i) # {}

\* ---------------------------------------------------------------------
\* Correlated view and severity counts
\* ---------------------------------------------------------------------
DistinctIds == \A i, j \in Positions : i # j => rules[i].id # rules[j].id

\* the finding names the rule as its subject or as its linked rule
Names(finding, rule) ==
    \/ finding.rule = rule
    \/ "by_rule" \in DOMAIN finding /\ finding.by_rule = rule
    \/ "reference" \in DOMAIN finding /\ finding.reference = rule

\* the generalization finding lists the rule among its covered rules
Covers(finding, rule) ==
    \E m \in 1..Len(finding.covered_rules) : finding.covered_rules[m] = rule

Categories == {"shadowed", "redundant", "permissive", "unused", "unsafe_services", "generalized"}

Untouched(rule) ==
    /\ \A c \in Categories : \A k \in Findings(c) : ~Names(anomalies[c][k], rule)
    /\ \A k \in Findings("generalized") : ~Covers(anomalies.generalized[k], rule)

\* C8: for a rule list of pairwise distinct ids the correlated view has one
\* entry per input rule, in input order, also for a rule that no finding
\* touches, whose entry has no tag and severity none.
C8_CorrelationCoversRules ==
    Done /\ DistinctIds =>
        /\ Len(anomalies.correlated) = Len(rules)
        /\ \A j \in Positions :
               /\ anomalies.correlated[j].rule = rules[j]
               /\ Untouched(rules[j]) =>
                      /\ anomalies.correlated[j].tags = <<>>
                      /\ anomalies.correlated[j].severity = "none"

\* three rules out of file order, one of them touched by no finding
C8_Witness ==
    /\ Done
    /\ Len(rules) = 3
    /\ \E j \in Positions : rules[j].id # j
    /\ \E j \in Positions : Untouched(rules[j])
    /\ \E j \in Positions : ~Untouched(rules[j])

\* the tags a rule is to carry
ExpectedTags(rule) ==
    {c \in Categories : \E k \in Findings(c) : Names(anomalies[c][k], rule)}
    \cup (IF \E k \in Findings("generalized") : Covers(anomalies.generalized[k], rule)
          THEN {"covered"} ELSE {})

\* the severities of the findings that touch a rule
TouchingSeverities(rule) ==
    {s \in {"low", "medium", "high"} :
        \/ \E c \in Categories : \E k \in Findings(c) :
               Names(anomalies[c][k], rule) /\ anomalies[c][k].severity = s
        \/ \E k \in Findings("generalized") :
               Covers(anomalies.generalized[k], rule) /\ anomalies.generalized[k].severity = s}

SeverityRank(s) == CASE s = "low" -> 1 [] s = "medium" -> 2 [] s = "high" -> 3

\* position of a tag in the alphabetical order of the tags
TagRank(t) ==
    CASE t = "covered" -> 1 [] t = "generalized" -> 2 [] t = "permissive" -> 3
      [] t = "redundant" -> 4 [] t = "shadowed" -> 5 [] t = "unsafe_services" -> 6
      [] t = "unused" -> 7

CorrelatedOf(rule) == {k \in 1..Len(anomalies.correlated) : anomalies.correlated[k].rule = rule}

\* C9: in the correlated view the tags of a rule are the sorted list, without
\* repetition, of the categories in which a finding has the rule as subject
\* or linked rule, plus "covered" if a generalization finding lists it; its
\* severity is the greatest severity of all those findings.
C9_TagsAndSeverity ==
    Done =>
        \A j \in Positions :
            /\ CorrelatedOf(rules[j]) # {}
            /\ \A k \in CorrelatedOf(rules[j]) :
                   LET entry == anomalies.correlated[k]
                   IN  /\ {entry.tags[m] : m \in 1..Len(entry.tags)} = ExpectedTags(rules[j])
                       /\ \A m, n \in 1..Len(entry.tags) :
                              m < n => TagRank(entry.tags[m]) < TagRank(entry.tags[n])
                       /\ TouchingSeverities(rules[j]) # {} =>
                              /\ entry.severity \in TouchingSeverities(rules[j])
                              /\ \A s \in TouchingSeverities(rules[j]) :
                                     SeverityRank(s) <= SeverityRank(entry.severity)

\* a rule that is covered and linked, touched by findings of low and of
\* higher severity
C9_Witness ==
    /\ Done
    /\ \E j \in Positions :
           /\ "covered" \in ExpectedTags(rules[j])
           /\ Cardinality(ExpectedTags(rules[j])) >= 4
           /\ Cardinality(TouchingSeverities(rules[j])) >= 2
           /\ \E k \in Findings("shadowed") : anomalies.shadowed[k].by_rule = rules[j]

\* the findings of the six categories, each named by category and index
AllFindings == UNION {{<<c, k>> : k \in Findings(c)} : c \in Categories}

FindingsOfSeverity(s) == {f \in AllFindings : anomalies[f[1]][f[2]].severity = s}

\* C10: severity_counts.high + medium + low is the number of findings of the
\* six categories and each count is the number of findings of that severity;
\* a finding that links other rules counts once and the correlated view adds
\* nothing.
C10_SeverityCounts ==
    Done =>
        /\ anomalies.severity_counts.high = Cardinality(FindingsOfSeverity("high"))
        /\ anomalies.severity_counts.medium = Cardinality(FindingsOfSeverity("medium"))
        /\ anomalies.severity_counts.low = Cardinality(FindingsOfSeverity("low"))
        /\ anomalies.severity_counts.high + anomalies.severity_counts.medium
               + anomalies.severity_counts.low = Cardinality(AllFindings)

\* findings of the three severities, with linked and covered rules
C10_Witness ==
    /\ Done
    /\ anomalies.shadowed # <<>>
    /\ anomalies.redundant # <<>>
    /\ anomalies.generalized # <<>>
    /\ anomalies.severity_counts.high > 0
    /\ anomalies.severity_counts.medium > 0
    /\ anomalies.severity_counts.low > 0

\* ---------------------------------------------------------------------
\* Containment helpers on their own
\* ---------------------------------------------------------------------
Answered == pc = "answered"

\* C11: is_port_subset is reflexive and transitive over the valid port
\* expressions: is_port_subset(P, P) holds, and is_port_subset(A, B) with
\* is_port_subset(B, C) gives is_port_subset(A, C).
C11_PortSubsetPreorder ==
    Answered =>
        /\ reply.aa
        /\ reply.ab /\ reply.bc => reply.ac

\* a chain of three port expressions, none contained in the one before it
C11_Witness ==
    /\ Answered
    /\ reply.ab
    /\ reply.bc
    /\ ~is_port_subset(query.b, query.a)
    /\ ~is_port_subset(query.c, query.b)

IsNetwork(text) == text \notin {"*", "any"} /\ ~ip_network_raises(text)

\* C18: is_ip_subset yields true or false, never an error, for every pair of
\* address expressions; an IPv4 network against an IPv6 network yields false,
\* and when the two operands cannot both be taken as networks the result is
\* the equality of the two texts.
C18_IpSubsetTotal ==
    Answered =>
        /\ reply \in {"True", "False"}
        /\ /\ IsNetwork(query.value)
           /\ IsNetwork(query.superset)
           /\ ip_literal(query.value).version # ip_literal(query.superset).version
           => reply = "False"
        /\ /\ query.value \notin {"*", "any"}
           /\ query.superset \notin {"*", "any"}
           /\ ip_network_raises(query.value) \/ ip_network_raises(query.superset)
           => reply = IF query.value = query.superset THEN "True" ELSE "False"

\* ---------------------------------------------------------------------
\* The packets a rule matches.  A packet address is <<version, number>>; a
\* set of addresses or ports is a union of intervals, so two such sets are
\* compared on the end points of all the intervals and their neighbours.
\* ---------------------------------------------------------------------
AddressPoints ==
    UNION {{<<ip_network(t).version, n>> :
                n \in {ip_network(t).network_address - 1, ip_network(t).network_address,
                       ip_network(t).broadcast_address, ip_network(t).broadcast_address + 1}} :
           t \in ParseableAddresses}

MatchesAddress(text, p) ==
    \/ text \in {"*", "any"}
    \/ /\ IsNetwork(text)
       /\ ip_network(text).version = p[1]
       /\ ip_network(text).network_address <= p[2]
       /\ p[2] <= ip_network(text).broadcast_address

AddressSet(text) == {p \in AddressPoints : MatchesAddress(text, p)}

PortPoints ==
    UNION {UNION {{parse_ports(t)[k][1] - 1, parse_ports(t)[k][1],
                   parse_ports(t)[k][2], parse_ports(t)[k][2] + 1} :
                  k \in 1..Len(parse_ports(t))} :
           t \in TrafficPorts} \cap (1..65535)

MatchesPort(text, p) ==
    \E k \in 1..Len(parse_ports(text)) :
        parse_ports(text)[k][1] <= p /\ p <= parse_ports(text)[k][2]

PortSet(text) == {p \in PortPoints : MatchesPort(text, p)}

PacketProtocols == {"tcp", "udp", "icmp"}

ProtocolSet(proto) == IF proto = "any" THEN PacketProtocols ELSE {proto}

\* the two rules match the same packets
SameTraffic(a, b) ==
    /\ AddressSet(a.source) = AddressSet(b.source)
    /\ AddressSet(a.destination) = AddressSet(b.destination)
    /\ PortSet(a.port) = PortSet(b.port)
    /\ ProtocolSet(a.protocol) = ProtocolSet(b.protocol)

\* every packet a matches is matched by b (no rule of the model matches nothing)
TrafficWithin(a, b) ==
    /\ AddressSet(a.source) \subseteq AddressSet(b.source)
    /\ AddressSet(a.destination) \subseteq AddressSet(b.destination)
    /\ PortSet(a.port) \subseteq PortSet(b.port)
    /\ ProtocolSet(a.protocol) \subseteq ProtocolSet(b.protocol)

\* C12: two rules for which traffic_subset holds in both directions match
\* the same source addresses, destination addresses, ports and protocols.
C12_MutualSameTraffic ==
    Answered /\ reply.ab = "True" /\ reply.ba = "True"
        => SameTraffic(query.a, query.b)

\* two rules written differently in source, destination and port, each
\* contained in the other
C12_Witness ==
    /\ Answered
    /\ reply.ab = "True"
    /\ reply.ba = "True"
    /\ query.a.source # query.b.source
    /\ query.a.destination # query.b.destination
    /\ query.a.port # query.b.port
    /\ query.a.source \notin {"*", "any"}
    /\ query.a.port \notin {PStar, PAny}

\* C16: whenever every packet matched by A is matched by B,
\* traffic_subset(A, B) is true, also when the ports of B cover those of A
\* only through several listed ranges together.
C16_ContainmentComplete ==
    Answered /\ TrafficWithin(query.a, query.b) => reply.ab = "True"

\* ---------------------------------------------------------------------
\* Failures of the engine and the exit code
\* ---------------------------------------------------------------------
Failed == pc = "failed"

Exited == pc = "exited"

MalformedPort(rule) == parse_ports_raises(rule.port)

\* what one detector returns on the loaded rules
ResultOf(category) ==
    CASE category = "shadowed"        -> detect_shadowed_rules(rules)
      [] category = "redundant"       -> detect_redundant_rules(rules)
      [] category = "permissive"      -> detect_permissive_rules(rules)
      [] category = "unused"          -> detect_unused_rules(rules)
      [] category = "unsafe_services" -> detect_unsafe_services(rules)
      [] category = "generalized"     -> detect_generalized_rules(rules)

\* C13: when the port expression of a rule holds a malformed token the audit
\* is not aborted: detect_all_anomalies returns a report and no error leaves
\* the engine.
C13_MalformedPortReported ==
    (\E k \in Positions : MalformedPort(rules[k])) => ~Failed

\* C14: when one of the six detectors fails on the rule list the audit does
\* not fail: detect_all_anomalies returns, with the results of the detectors
\* that did not fail.
C14_DetectorIsolation ==
    /\ pc \notin {"load", "detect"}
    /\ \E c \in Categories : detector_raises(rules)[c]
    => /\ ~Failed
       /\ \A c \in Categories :
              ~detector_raises(rules)[c] => anomalies[c] = ResultOf(c)

\* C15: main returns exit code 0 exactly when the six detector categories of
\* the report are all empty, and a non-zero exit code when there is a finding.
C15_ExitCodeZeroIffClean ==
    Exited => (exit_code = <<0>> <=> \A c \in Categories : anomalies[c] = <<>>)

\* ---------------------------------------------------------------------
\* Subset findings and generalization
\* ---------------------------------------------------------------------
SubsetFindings == {k \in Findings("redundant") : anomalies.redundant[k].kind = "subset"}

HasTag(rule, tag) ==
    /\ CorrelatedOf(rule) # {}
    /\ \A k \in CorrelatedOf(rule) :
           \E m \in 1..Len(anomalies.correlated[k].tags) : anomalies.correlated[k].tags[m] = tag

\* C17: every subset finding (subject O, reference R) comes with a
\* generalization finding on R of severity medium whose covered_rules holds
\* O; in the correlated view O has the tag "covered" and R the tag
\* "generalized".
C17_SubsetHasGeneralization ==
    Done =>
        \A k \in SubsetFindings :
            /\ \E g \in Findings("generalized") :
                   /\ anomalies.generalized[g].rule = anomalies.redundant[k].reference
                   /\ Covers(anomalies.generalized[g], anomalies.redundant[k].rule)
                   /\ anomalies.generalized[g].severity = "medium"
            /\ HasTag(anomalies.redundant[k].rule, "covered")
            /\ HasTag(anomalies.redundant[k].reference, "generalized")

\* a subset finding, in a report that also has a generalization finding of
\* severity high and a covered rule that is no subject of a subset finding
C17_Witness ==
    /\ Done
    /\ SubsetFindings # {}
    /\ \E g \in Findings("generalized") : anomalies.generalized[g].severity = "high"
    /\ \E j \in Positions :
           /\ HasTag(rules[j], "covered")
           /\ \A k \in SubsetFindings : anomalies.redundant[k].rule # rules[j]

\* ---------------------------------------------------------------------
\* Frame of the engine
\* ---------------------------------------------------------------------
InList(rule) == \E i \in Positions : rules[i] = rule

\* every rule a finding or a correlation entry refers to is in the rule list
ReferencesInList ==
    /\ \A c \in Categories : \A k \in Findings(c) :
           /\ InList(anomalies[c][k].rule)
           /\ "by_rule" \in DOMAIN anomalies[c][k] => InList(anomalies[c][k].by_rule)
           /\ "reference" \in DOMAIN anomalies[c][k] => InList(anomalies[c][k].reference)
           /\ "covered_rules" \in DOMAIN anomalies[c][k] =>
                  \A m \in 1..Len(anomalies[c][k].covered_rules) :
                      InList(anomalies[c][k].covered_rules[m])
    /\ \A k \in 1..Len(anomalies.correlated) : InList(anomalies.correlated[k].rule)

\* C19: the call of detect_all_anomalies leaves the rule list as it was (the
\* same rules with the same field values in the same order), and every rule
\* that a finding or a correlation entry refers to (rule, by_rule, reference,
\* covered_rules) is an element of that list.
C19_RulesUnchanged ==
    /\ [][pc = "detect" => rules' = rules]_vars
    /\ [](Done => rules = normalize_rules(input) /\ ReferencesInList)

\* a report over several rules with a by_rule, a reference and a
\* covered_rules reference
C19_Witness ==
    /\ Done
    /\ Len(rules) >= 2
    /\ anomalies.shadowed # <<>>
    /\ anomalies.redundant # <<>>
    /\ anomalies.generalized # <<>>
    /\ anomalies.unused # <<>>

====
